---- MODULE Spec2Model ----
(***************************************************************************)
(* Model of src/src/delay.rs: CircularBuffer (new / write / read) and the  *)
(* SimpleDelay (feedback delay) tick built on it.                          *)
(*                                                                         *)
(* Samples (f32) are modelled by integers: every sample the model handles  *)
(* is a small integer, on which f32 addition and multiplication are exact. *)
(* delay_samples (f32) is modelled in fixed point: the integer q stands    *)
(* for the delay q / DelayDenom samples.                                   *)
(* The machine integers are scaled down: i32 has I32Bits bits and usize    *)
(* has UsizeBits bits. As on a 64-bit target, the largest Vec<f32> that    *)
(* can be built (isize::MAX / 4 slots) is longer than i32::MAX, and every  *)
(* negative i32 cast to usize is larger than any Vec<f32> can be.          *)
(***************************************************************************)
EXTENDS Integers, Sequences, FiniteSets

\* ----------------------------------------------------------------- bounds
\* Largest buffer_size the main specification constructs (within i32::MAX
\* of the scaled-down i32; larger capacities are the index specification's).
MaxCap == 3
\* Most writes (direct or by tick) one behaviour performs.
MaxWrites == 4
\* Fixed-point resolution of delay_samples: q stands for q / DelayDenom.
DelayDenom == 2
\* Scaled-down width of i32.
I32Bits == 3

\* Scaled-down width of usize and isize: wide enough for isize::MAX / 4 to
\* exceed 2^32 (on the 64-bit target 2^61 - 1), so that a Vec<f32> can be
\* longer than i32::MAX and longer than the whole range of i32.
UsizeBits == I32Bits + 4
\* usize::MAX
UsizeMax == 2^UsizeBits - 1
\* isize::MAX, the most bytes one allocation may have
IsizeMax == 2^(UsizeBits - 1) - 1
\* size_of::<f32>()
SampleBytes == 4
\* i32::MAX and i32::MIN
I32Max == 2^(I32Bits - 1) - 1
I32Min == -(2^(I32Bits - 1))

\* Inputs the environment supplies.
InputSamples == {0, 1}
FeedbackAmounts == {0, 2}

VARIABLES
    buffer,           \* CircularBuffer.buffer: function 0..len-1 -> sample
    write_index,      \* CircularBuffer.write_index
    panicked,         \* TRUE once an operation has panicked: processing is over
    written,          \* history: every value stored by write, oldest first
    last              \* history: the last operation, its arguments, its result
                      \* and the buffer state it started from

vars == <<buffer, write_index, panicked, written, last>>

\* ------------------------------------------------------- machine integers
\* `x as i32` for a usize x: keep the low I32Bits bits, two's complement.
AsI32(x) ==
    LET m == x % (2^I32Bits)
    IN  IF m > I32Max THEN m - 2^I32Bits ELSE m

\* The value an i32 operation leaves when overflow is not checked.
WrapI32(x) == AsI32(x)

\* Whether the mathematical result x of an i32 operation overflows.
OverflowsI32(x) == x < I32Min \/ x > I32Max

\* `x as usize` for an i32 x: sign-extend, then reinterpret as unsigned.
AsUsize(x) == x % (2^UsizeBits)

\* `delay_samples as usize` for the f32 delay q / DelayDenom: truncation
\* toward zero, saturating at 0 and at usize::MAX.
FloatToUsize(q) ==
    IF q < 0 THEN 0
    ELSE IF q \div DelayDenom > UsizeMax THEN UsizeMax
    ELSE q \div DelayDenom

\* --------------------------------------------------------- CircularBuffer
\* self.buffer.len()
BufLen(cb) == Cardinality(DOMAIN cb.buffer)

\* What stands for the buffer when construction failed: nothing was built.
NoBuffer == [buffer |-> [i \in {} |-> 0], write_index |-> 0]

\* CircularBuffer::new. vec![0.0; buffer_size] panics with "capacity
\* overflow" when buffer_size * 4 bytes exceed isize::MAX, and aborts the
\* process when the allocator cannot supply the bytes (alloc_ok: whether it
\* can; an empty Vec allocates nothing).
New(buffer_size, alloc_ok) ==
    IF buffer_size * SampleBytes > IsizeMax
    THEN [panic |-> "capacity", cb |-> NoBuffer]
    ELSE IF buffer_size > 0 /\ ~alloc_ok
    THEN [panic |-> "alloc", cb |-> NoBuffer]
    ELSE [panic |-> "none",
          cb |-> [buffer |-> [i \in 0..(buffer_size - 1) |-> 0],
                  write_index |-> 0]]

\* Mutant of AdvanceIndex: the wrap test is missing.
AdvanceIndexNoWrap(wi, len) == wi + 1

\* The cursor after `self.write_index += 1` and the wrap test.
AdvanceIndex(wi, len) ==
    IF wi + 1 = len THEN 0 ELSE wi + 1

\* Mutant of Write: the cursor advances before the store, so the value lands
\* in the slot after the cursor.
WriteAdvanceFirst(cb, value) ==
    IF cb.write_index \notin DOMAIN cb.buffer
    THEN [panic |-> "index", cb |-> cb]
    ELSE LET wi == AdvanceIndex(cb.write_index, BufLen(cb))
         IN  [panic |-> "none",
              cb |-> [buffer |-> [cb.buffer EXCEPT ![wi] = value],
                      write_index |-> wi]]

\* Mutant of Write: a write into an empty buffer is silently dropped.
WriteDropsOnEmpty(cb, value) ==
    IF cb.write_index \notin DOMAIN cb.buffer
    THEN [panic |-> "none", cb |-> cb]
    ELSE [panic |-> "none",
          cb |-> [buffer |-> [cb.buffer EXCEPT ![cb.write_index] = value],
                  write_index |-> AdvanceIndex(cb.write_index, BufLen(cb))]]

\* CircularBuffer::write. panic "index": self.buffer[self.write_index] is
\* out of bounds (only an empty buffer), before anything is changed.
Write(cb, value) ==
    IF cb.write_index \notin DOMAIN cb.buffer
    THEN [panic |-> "index", cb |-> cb]
    ELSE [panic |-> "none",
          cb |-> [buffer |-> [cb.buffer EXCEPT ![cb.write_index] = value],
                  write_index |-> AdvanceIndex(cb.write_index, BufLen(cb))]]

\* Mutant of ReadIndex: no `+= len` correction, the negative difference is
\* cast as it is.
ReadIndexNoCorrection(wi, length_samples, len) ==
    LET diff == AsI32(wi) - AsI32(length_samples)
    IN  [overflow |-> OverflowsI32(diff), index |-> AsUsize(WrapI32(diff))]

\* Mutant of ReadIndex: the correction is applied when read_index <= 0.
ReadIndexCorrectsZero(wi, length_samples, len) ==
    LET diff  == AsI32(wi) - AsI32(length_samples)
        r0    == WrapI32(diff)
        sum   == IF r0 <= 0 THEN r0 + AsI32(len) ELSE r0
    IN  [overflow |-> OverflowsI32(diff) \/ OverflowsI32(sum),
         index    |-> AsUsize(WrapI32(sum))]

\* The index computation of CircularBuffer::read: the i32 subtraction, the
\* conditional `+= len`, and the cast back to usize.
\* overflow: one of the two i32 operations overflowed.
ReadIndex(wi, length_samples, len) ==
    LET diff  == AsI32(wi) - AsI32(length_samples)
        r0    == WrapI32(diff)
        sum   == IF r0 < 0 THEN r0 + AsI32(len) ELSE r0
        r1    == WrapI32(sum)
    IN  [overflow |-> OverflowsI32(diff) \/ OverflowsI32(sum),
         index    |-> AsUsize(r1)]

\* Mutant of Read: the capacity check is missing.
ReadUnchecked(cb, length_samples, checks) ==
    LET ri == ReadIndex(cb.write_index, length_samples, BufLen(cb))
    IN  IF checks /\ ri.overflow
        THEN [panic |-> "overflow", value |-> 0, index |-> -1, cb |-> cb]
        ELSE IF ri.index \notin DOMAIN cb.buffer
        THEN [panic |-> "index", value |-> 0, index |-> ri.index, cb |-> cb]
        ELSE [panic |-> "none", value |-> cb.buffer[ri.index],
              index |-> ri.index, cb |-> cb]

\* Mutant of Read: reading consumes, the cursor moves on after the read.
ReadConsuming(cb, length_samples, checks) ==
    LET r == ReadUnchecked(cb, length_samples, checks)
    IN  IF length_samples > BufLen(cb)
        THEN [panic |-> "delay", value |-> 0, index |-> -1, cb |-> cb]
        ELSE [r EXCEPT !.cb = [cb EXCEPT !.write_index =
                                  AdvanceIndex(cb.write_index, BufLen(cb))]]

\* CircularBuffer::read. panic "delay": the explicit capacity check;
\* "overflow": an arithmetic overflow in a build that checks it (checks);
\* "index": self.buffer[read_index] out of bounds.
\* index: the slot accessed (-1: none). cb: the buffer after the call; read
\* takes &self, so it is the buffer before the call.
Read(cb, length_samples, checks) ==
    IF length_samples > BufLen(cb)
    THEN [panic |-> "delay", value |-> 0, index |-> -1, cb |-> cb]
    ELSE LET ri == ReadIndex(cb.write_index, length_samples, BufLen(cb))
         IN  IF checks /\ ri.overflow
             THEN [panic |-> "overflow", value |-> 0, index |-> -1, cb |-> cb]
             ELSE IF ri.index \notin DOMAIN cb.buffer
             THEN [panic |-> "index", value |-> 0, index |-> ri.index,
                   cb |-> cb]
             ELSE [panic |-> "none", value |-> cb.buffer[ri.index],
                   index |-> ri.index, cb |-> cb]

\* ------------------------------------------------------------ SimpleDelay
\* The sample tick stores: input_sample + (output * feedback_amount).
Stored(input_sample, output, feedback_amount) ==
    input_sample + (output * feedback_amount)

\* Mutant of Tick: the input is written first and the output read after it.
TickWriteFirst(cb, input_sample, q, feedback_amount, checks) ==
    LET w == Write(cb, input_sample)
        r == Read(w.cb, FloatToUsize(q), checks)
    IN  IF w.panic # "none"
        THEN [panic |-> w.panic, output |-> 0, cb |-> cb]
        ELSE [panic |-> r.panic, output |-> r.value, cb |-> w.cb]

\* Mutant of Tick: a delay past the capacity is clamped to the capacity.
TickClamped(cb, input_sample, q, feedback_amount, checks) ==
    LET d == IF FloatToUsize(q) > BufLen(cb) THEN BufLen(cb)
             ELSE FloatToUsize(q)
        r == Read(cb, d, checks)
    IN  IF r.panic # "none"
        THEN [panic |-> r.panic, output |-> 0, cb |-> r.cb]
        ELSE LET w == Write(r.cb,
                            Stored(input_sample, r.value, feedback_amount))
             IN  [panic |-> w.panic, output |-> r.value, cb |-> w.cb]

\* SimpleDelay::tick on the buffer cb, delay q / DelayDenom samples.
Tick(cb, input_sample, q, feedback_amount, checks) ==
    LET r == Read(cb, FloatToUsize(q), checks)
    IN  IF r.panic # "none"
        THEN [panic |-> r.panic, output |-> 0, cb |-> r.cb]
        ELSE LET w == Write(r.cb,
                            Stored(input_sample, r.value, feedback_amount))
             IN  [panic |-> w.panic, output |-> r.value, cb |-> w.cb]

\* ------------------------------------------------------------- the system
Self == [buffer |-> buffer, write_index |-> write_index]

\* The history record of a freshly constructed delay.
Fresh(cb) == [op |-> "new", arg |-> 0, input |-> 0, fb |-> 0, out |-> 0,
              index |-> -1, panic |-> "none", pre |-> cb]

\* The state SimpleDelay::new(buffer_size) leaves: the delay with its fresh
\* buffer, or the end of processing when the construction failed.
Construct(buffer_size, alloc_ok) ==
    LET n == New(buffer_size, alloc_ok)
    IN  /\ buffer = n.cb.buffer
        /\ write_index = n.cb.write_index
        /\ panicked = (n.panic # "none")
        /\ written = << >>
        /\ last = [Fresh(n.cb) EXCEPT !.arg = buffer_size, !.panic = n.panic]

\* SimpleDelay::new(buffer_size) for some buffer_size.
Init ==
    \E size \in 0..MaxCap, alloc_ok \in BOOLEAN : Construct(size, alloc_ok)

\* A call of CircularBuffer::write(value).
WriteStep(value) ==
    /\ ~panicked
    /\ LET w == Write(Self, value)
       IN  /\ buffer' = w.cb.buffer
           /\ write_index' = w.cb.write_index
           /\ panicked' = (w.panic # "none")
           /\ written' = IF w.panic = "none" THEN Append(written, value)
                         ELSE written
           /\ last' = [op |-> "write", arg |-> 0, input |-> value, fb |-> 0,
                       out |-> 0, index |-> -1, panic |-> w.panic,
                       pre |-> Self]

\* A call of CircularBuffer::write(value), while writes are left.
DoWrite(value) ==
    /\ Len(written) < MaxWrites
    /\ WriteStep(value)

\* A call of CircularBuffer::read(length_samples). checks: whether the build
\* panics on integer overflow (debug profile) or wraps (release profile).
DoRead(length_samples, checks) ==
    /\ ~panicked
    /\ LET r == Read(Self, length_samples, checks)
       IN  /\ buffer' = r.cb.buffer
           /\ write_index' = r.cb.write_index
           /\ panicked' = (r.panic # "none")
           /\ last' = [op |-> "read", arg |-> length_samples, input |-> 0,
                       fb |-> 0, out |-> r.value, index |-> r.index,
                       panic |-> r.panic, pre |-> Self]
    /\ UNCHANGED written

\* A call of SimpleDelay::tick(input_sample, q / DelayDenom, feedback_amount),
\* in a build with or without overflow checks.
TickStep(input_sample, q, feedback_amount, checks) ==
    /\ ~panicked
    /\ LET t == Tick(Self, input_sample, q, feedback_amount, checks)
       IN  /\ buffer' = t.cb.buffer
           /\ write_index' = t.cb.write_index
           /\ panicked' = (t.panic # "none")
           /\ written' = IF t.panic = "none"
                         THEN Append(written,
                                     Stored(input_sample, t.output,
                                            feedback_amount))
                         ELSE written
           /\ last' = [op |-> "tick", arg |-> q, input |-> input_sample,
                       fb |-> feedback_amount, out |-> t.output,
                       index |-> -1, panic |-> t.panic, pre |-> Self]

\* A call of SimpleDelay::tick, while writes are left.
DoTick(input_sample, q, feedback_amount, checks) ==
    /\ Len(written) < MaxWrites
    /\ TickStep(input_sample, q, feedback_amount, checks)

\* Delay lengths the callers try: every length up to past the capacity.
ReadLengths == 0..(BufLen(Self) + 1)
\* Fixed-point delays the callers try: a negative one, and every integer and
\* fractional delay up to past the capacity.
TickDelays == (-1)..((BufLen(Self) + 2) * DelayDenom - 1)

Next ==
    \/ \E v \in InputSamples : DoWrite(v)
    \/ \E k \in ReadLengths, checks \in BOOLEAN : DoRead(k, checks)
    \/ \E x \in InputSamples, q \in TickDelays, f \in FeedbackAmounts,
          checks \in BOOLEAN :
          DoTick(x, q, f, checks)

Spec == Init /\ [][Next]_vars

\* ------------------------------------------- the index computation alone
\* SimpleDelay::new(buffer_size) for every buffer_size >= 1 of the
\* (scaled-down) usize: the sizes above isize::MAX / 4 build no delay.
InitIndex ==
    \E size \in 1..UsizeMax, alloc_ok \in BOOLEAN : Construct(size, alloc_ok)

\* Laps of the cursor around the buffer.
MaxLaps == 2

\* The writes 1, 2, 3, ... of MaxLaps laps: the slots hold different
\* samples, and the cursor visits every slot and wraps to 0.
DoWriteCounting ==
    /\ Len(written) < MaxLaps * BufLen(Self)
    /\ WriteStep(Len(written) + 1)

\* Delay lengths tried on it: all up to one past the capacity.
IndexLengths ==
    0..(IF BufLen(Self) + 1 > UsizeMax THEN UsizeMax ELSE BufLen(Self) + 1)

NextIndex ==
    \/ DoWriteCounting
    \/ \E k \in IndexLengths, checks \in BOOLEAN : DoRead(k, checks)

SpecIndex == InitIndex /\ [][NextIndex]_vars

\* ------------------------------------------- ticks on every capacity
\* A call of SimpleDelay::tick with the next of the inputs 1, 2, 3, ...,
\* while writes are left.
DoTickCounting(q, feedback_amount, checks) ==
    DoTick(Len(written) + 1, q, feedback_amount, checks)

\* Ticks on a delay of any capacity that can be built, with every delay
\* and feedback the callers try.
NextTickIndex ==
    \E q \in TickDelays, f \in FeedbackAmounts, checks \in BOOLEAN :
       DoTickCounting(q, f, checks)

SpecTickIndex == InitIndex /\ [][NextTickIndex]_vars

\* ------------------------------------------------------ the echo scenario
\* Ticks of one echo run.
MaxEchoTicks == 8
\* Feedback amounts of the echo runs.
EchoFeedbacks == {-1, 0, 2}

\* SimpleDelay::new(buffer_size) with buffer_size >= 1.
InitEcho ==
    \E size \in 1..UsizeMax, alloc_ok \in BOOLEAN : Construct(size, alloc_ok)

\* The caller's loop: tick 0 has input 1 and fixes the delay d and the
\* feedback f; every later tick has input 0 and the same d and f.
EchoTick(d, f, checks) ==
    /\ Len(written) < MaxEchoTicks
    /\ Len(written) > 0 => (last.arg = d * DelayDenom /\ last.fb = f)
    /\ TickStep(IF Len(written) = 0 THEN 1 ELSE 0, d * DelayDenom, f, checks)

NextEcho ==
    \E d \in 1..BufLen(Self), f \in EchoFeedbacks, checks \in BOOLEAN :
       EchoTick(d, f, checks)

SpecEcho == InitEcho /\ [][NextEcho]_vars

\* ============================================================== properties
\* Capacity C and number n of values written so far.
Cap == BufLen(Self)
N == Len(written)
\* Capacity of the buffer the last operation started from.
PreCap == BufLen(last.pre)
\* The fixed-point delay q is a whole, non-negative number of samples.
IntegerDelay(q) == q >= 0 /\ q % DelayDenom = 0
DelayOf(q) == q \div DelayDenom
Min(a, b) == IF a < b THEN a ELSE b

\* C1: after n writes w_0 .. w_{n-1} into a buffer of capacity C >= 1,
\* read(k) with 1 <= k <= min(n, C) returns w_{n-k}, however often the
\* cursor has wrapped (written[i] is w_{i-1}).
C1_ReadReturnsKthMostRecent ==
    (last.op = "read" /\ Cap >= 1 /\ last.arg >= 1
        /\ last.arg <= Min(N, Cap))
    => (last.panic = "none" /\ last.out = written[N - last.arg + 1])

\* C2: read(k) with k > C ends in the RequestedDelayExceedsCapacity panic,
\* returns no value and accesses no slot.
C2_ReadPastCapacityPanics ==
    (last.op = "read" /\ last.arg > PreCap)
    => (last.panic = "delay" /\ panicked /\ last.index = -1)

\* A read(k), k > C, on a buffer that holds samples, which panicked.
C2_Witness ==
    /\ last.op = "read" /\ last.arg > Cap /\ Cap >= 1 /\ N >= 1
    /\ last.panic = "delay"

\* C3 as stated: after at least one write, read(0) returns the value most
\* recently written.
C3_ReadZeroIsNewest ==
    (last.op = "read" /\ Cap >= 1 /\ N >= 1 /\ last.arg = 0)
    => (last.panic = "none" /\ last.out = written[N])

\* C3 amended: after at least one write, read(0) with the write cursor at
\* most i32::MAX (every cursor when C <= 2^31) returns the sample in the
\* slot at the cursor (the next to be overwritten): the value written C
\* writes ago, w_{n-C}, when n >= C, and the initial 0 when n < C. With the
\* cursor above i32::MAX the narrowed index is another one: read(0) panics
\* or reads a slot other than the one at the cursor.
C3_ReadZeroIsCursorSlot ==
    (last.op = "read" /\ PreCap >= 1 /\ N >= 1 /\ last.arg = 0)
    => IF last.pre.write_index <= I32Max
       THEN /\ last.panic = "none"
            /\ last.index = write_index
            /\ last.out = buffer[write_index]
            /\ last.out = IF N >= Cap THEN written[N - Cap + 1] ELSE 0
       ELSE ~(last.panic = "none" /\ last.index = write_index)

\* A read(0) on a capacity above i32::MAX, after the cursor has wrapped
\* and with the cursor within i32::MAX, that returned the oldest kept
\* value, not the newest.
C3_Witness ==
    /\ last.op = "read" /\ last.arg = 0 /\ last.panic = "none"
    /\ Cap > I32Max /\ N > Cap /\ write_index >= 1
    /\ last.out = written[N - Cap + 1]
    /\ last.out # written[N]

\* C4: tick(input, d, fb) with integer 0 <= d <= C returns the sample the
\* pre-tick buffer holds at (cursor - d) mod C, and leaves the pre-tick
\* buffer with input + out * fb stored at the cursor and the cursor advanced.
C4_TickIsReadThenWrite ==
    (last.op = "tick" /\ PreCap >= 1 /\ IntegerDelay(last.arg)
        /\ DelayOf(last.arg) <= PreCap)
    => LET c   == last.pre.write_index
           out == last.pre.buffer[(c - DelayOf(last.arg)) % PreCap]
       IN  /\ last.panic = "none"
           /\ last.out = out
           /\ buffer = [last.pre.buffer EXCEPT
                           ![c] = last.input + out * last.fb]
           /\ write_index = (c + 1) % PreCap

\* A tick with delay 1 and feedback 2 that returned a non-zero sample and
\* stored input + 2 * out.
C4_Witness ==
    /\ last.op = "tick" /\ last.panic = "none"
    /\ last.arg = DelayDenom /\ last.fb = 2 /\ last.out # 0
    /\ last.input = 1
    /\ buffer[last.pre.write_index] = 1 + 2 * last.out

\* C5: tick t (t = number of samples stored before it) with integer delay
\* d in 1..C outputs s_{t-d} when t >= d and 0 when t < d, and stores
\* s_t = x_t + f_t * o_t, whatever the earlier delays and feedbacks were.
C5_TickOutputIsStoredSample ==
    (last.op = "tick" /\ PreCap >= 1 /\ IntegerDelay(last.arg)
        /\ DelayOf(last.arg) >= 1 /\ DelayOf(last.arg) <= PreCap)
    => LET t == N - 1
           d == DelayOf(last.arg)
       IN  /\ last.panic = "none"
           /\ last.out = IF t >= d THEN written[t - d + 1] ELSE 0
           /\ written[N] = last.input + last.fb * last.out

\* C6: a tick whose truncated delay exceeds C panics as read does, before
\* any write: buffer and cursor are as they were before the call.
C6_TickPastCapacityPanics ==
    (last.op = "tick" /\ FloatToUsize(last.arg) > PreCap)
    => /\ last.panic = "delay"
       /\ panicked
       /\ buffer = last.pre.buffer
       /\ write_index = last.pre.write_index

\* A tick with delay C + 1 on a buffer that holds samples, which panicked.
C6_Witness ==
    /\ last.op = "tick" /\ last.panic = "delay"
    /\ Cap >= 1 /\ N >= 1
    /\ FloatToUsize(last.arg) = Cap + 1

\* C7: write(v) at cursor c stores v in slot c, changes no other slot and
\* not the length, and sets the cursor to c + 1, or to 0 when c + 1 = C.
C7_WriteFrame ==
    (last.op = "write" /\ PreCap >= 1)
    => LET c == last.pre.write_index
       IN  /\ last.panic = "none"
           /\ DOMAIN buffer = DOMAIN last.pre.buffer
           /\ buffer[c] = last.input
           /\ \A i \in DOMAIN buffer \ {c} : buffer[i] = last.pre.buffer[i]
           /\ write_index = IF c + 1 < PreCap THEN c + 1 ELSE 0

\* A write into the last slot that changed it and wrapped the cursor to 0.
C7_Witness ==
    /\ last.op = "write" /\ last.panic = "none"
    /\ Cap >= 2 /\ last.pre.write_index = Cap - 1
    /\ write_index = 0
    /\ last.input # last.pre.buffer[Cap - 1]

\* C8: read(k), 0 <= k <= C, leaves cursor and storage as they were, and
\* a further read(k) in the state it leaves returns the same value.
C8_ReadFrame ==
    (last.op = "read" /\ PreCap >= 1 /\ last.arg <= PreCap)
    => /\ buffer = last.pre.buffer
       /\ write_index = last.pre.write_index
       /\ \A checks \in BOOLEAN :
             LET again == Read(Self, last.arg, checks)
             IN  /\ again.panic = last.panic
                 /\ again.value = last.out
                 /\ again.cb = Self

\* A read that returned a stored sample from a partly overwritten buffer.
C8_Witness ==
    /\ last.op = "read" /\ last.panic = "none"
    /\ Cap >= 2 /\ N >= 1 /\ last.arg >= 1 /\ last.arg <= Cap
    /\ last.out # 0
    /\ write_index # 0

\* C9: for capacity C >= 1 the write cursor is always in 0..C-1.
C9_CursorInRange ==
    Cap >= 1 => (write_index >= 0 /\ write_index < Cap)

\* The write that filled the last slot left the cursor at 0, not at C.
C9_Witness ==
    /\ Cap >= 2 /\ N = Cap /\ ~panicked
    /\ last.op \in {"write", "tick"}
    /\ last.pre.write_index = Cap - 1
    /\ write_index = 0

\* C10: for 1 <= C <= i32::MAX and 0 <= k <= C, read(k) returns the sample
\* at index (write_index - k) mod C, the non-negative modulo.
C10_ReadIndexIsMathMod ==
    (last.op = "read" /\ PreCap >= 1 /\ PreCap <= I32Max
        /\ last.arg <= PreCap)
    => LET i == (last.pre.write_index - last.arg) % PreCap
       IN  /\ last.panic = "none"
           /\ last.index = i
           /\ last.out = last.pre.buffer[i]

\* A read at the largest such capacity whose difference was negative and
\* was corrected, with k strictly inside 0..C, returning a written sample.
C10_Witness ==
    /\ last.op = "read" /\ last.panic = "none"
    /\ Cap = I32Max /\ last.arg > 0 /\ last.arg < Cap
    /\ write_index < last.arg
    /\ last.index = write_index - last.arg + Cap
    /\ last.out # 0

\* C11: for capacity C >= 1 write never fails, and read(k) with k in 0..C
\* never fails: the index it uses on the storage is within 0..C-1.
C11_NoOtherFailure ==
    (last.op \in {"write", "read"} /\ PreCap >= 1
        /\ (last.op = "read" => last.arg <= PreCap))
    => /\ last.panic = "none"
       /\ last.op = "read" => last.index \in 0..(PreCap - 1)

C13_ZeroCapacityAlwaysPanics ==
    (last.op \in {"write", "read", "tick"} /\ PreCap = 0)
    => /\ last.panic # "none"
       /\ panicked
       /\ Self = last.pre
       /\ written = << >>
       /\ (last.op = "read" /\ last.arg = 0) => last.panic = "index"
       /\ (last.op = "read" /\ last.arg > 0) => last.panic = "delay"
       /\ last.op = "write" => last.panic = "index"

\* read(0) on a buffer of capacity 0 passed the capacity check and
\* panicked on the index.
C13_Witness ==
    /\ last.op = "read" /\ last.arg = 0 /\ Cap = 0
    /\ last.panic = "index" /\ last.index = 0
    /\ panicked

\* C14: for every capacity C >= 1 the usize can express, every cursor in
\* 0..C-1 and every k in 0..C, the index read computes through i32 is the
\* mathematical (write_index - k) mod C: the narrowing to i32 neither makes
\* the read fail nor changes the slot that is read.
C14_NarrowedIndexIsMathMod ==
    (last.op = "read" /\ PreCap >= 1 /\ last.arg <= PreCap)
    => /\ last.panic = "none"
       /\ last.index = (last.pre.write_index - last.arg) % PreCap
       /\ last.out =
             last.pre.buffer[(last.pre.write_index - last.arg) % PreCap]

\* The same, for the slot alone: a read that neither panics nor overflows
\* still reads the slot (write_index - k) mod C.
C14_SilentIndexIsMathMod ==
    (last.op = "read" /\ PreCap >= 1 /\ last.arg <= PreCap
        /\ last.panic = "none"
        /\ ~ReadIndex(last.pre.write_index, last.arg, PreCap).overflow)
    => last.index = (last.pre.write_index - last.arg) % PreCap

\* C15: in every reachable state with C >= 1, read(0) and read(C) access
\* the slot at the write cursor and return the same value, and tick(x, 0, fb)
\* and tick(x, C, fb) return the same output and leave the same buffer.
C15_ReadZeroEqualsReadCapacity ==
    (Cap >= 1 /\ ~panicked)
    => \A checks \in BOOLEAN :
          LET r0 == Read(Self, 0, checks)
              rC == Read(Self, Cap, checks)
          IN  /\ r0.panic = "none" /\ rC.panic = "none"
              /\ r0.index = write_index /\ rC.index = write_index
              /\ r0.value = rC.value
              /\ \A x \in InputSamples, f \in FeedbackAmounts :
                    Tick(Self, x, 0, f, checks)
                        = Tick(Self, x, Cap * DelayDenom, f, checks)

\* C16: after n < C writes into a fresh buffer of capacity C >= 1, read(k)
\* with n < k <= C returns the initial 0 from a slot never written (slots
\* 0..n-1 are the written ones); on a new buffer every read(k), 0 <= k <= C,
\* returns 0.
C16_UnwrittenHistoryIsSilence ==
    (last.op = "read" /\ Cap >= 1 /\ N < Cap
        /\ last.arg <= Cap /\ (last.arg > N \/ N = 0))
    => /\ last.panic = "none"
       /\ last.out = 0
       /\ last.index \notin 0..(N - 1)

\* b to the power e, e >= 0.
RECURSIVE Pow(_, _)
Pow(b, e) == IF e = 0 THEN 1 ELSE b * Pow(b, e - 1)

\* C17: in an echo run (input 1 on tick 0, then 0; constant integer delay d
\* in 1..C and constant feedback f) tick t outputs f^(j-1) when t = j * d
\* with j >= 1, and 0 on every other tick, tick 0 included.
C17_EchoImpulseResponse ==
    (last.op = "tick" /\ Cap >= 1)
    => LET t == N - 1
           d == DelayOf(last.arg)
       IN  /\ last.panic = "none"
           /\ last.out = IF t >= 1 /\ t % d = 0
                          THEN Pow(last.fb, (t \div d) - 1)
                          ELSE 0

====
